---- MODULE Spec2Model ----
(***************************************************************************)
(* Model of src/CNN_2.py: the sweep builder RunBuilder.get_runs, the run   *)
(* manager RunManager and the sweep loop of main().                        *)
(*                                                                         *)
(* Python values are modelled as follows.                                  *)
(*   Optional field   the set {} for None, {x} for the value x             *)
(*   OrderedDict      a sequence of <<key, value>> pairs, insertion order  *)
(*   namedtuple Run   a sequence of <<field, value>> pairs                 *)
(*   float quotient   an exact fraction <<num, den>> in lowest terms       *)
(*   time.time()      the integer variable clock, which never decreases    *)
(***************************************************************************)
EXTENDS Integers, Sequences, FiniteSets, TLC

\* ------------------------------------------------------------------ bounds
MaxParams == 2      \* parameters of a space handed to get_runs
MaxVals == 2        \* candidate values per parameter
MaxD == 3           \* examples in a data source
MaxB == 2           \* configured batch size of a loader
Epochs == 2         \* epochs per run (main runs 5)
MaxRunCount == 2    \* begin_run calls of a free or legal call sequence
MaxEpochCount == 1  \* largest epoch_count of a free call sequence
MaxLossSum == 2     \* largest |epoch_loss| of a free call sequence
MaxCorrectSum == 1  \* largest epoch_num_correct of a free call sequence
MaxHistory == 1     \* records appended by a free call sequence
MaxClock == 3       \* largest value of the clock of a timed call sequence
MaxRecords == 3     \* records appended by a timed call sequence

\* ---------------------------------------------------------------- helpers
None == {}
Some(x) == {x}
The(o) == CHOOSE x \in o : TRUE

Min(a, b) == IF a <= b THEN a ELSE b
Abs(a) == IF a < 0 THEN 0 - a ELSE a

RECURSIVE GCD(_, _)
GCD(a, b) == IF b = 0 THEN a ELSE GCD(b, a % b)

\* Python's a / b for b > 0, kept exact.
TrueDiv(a, b) ==
    LET g == GCD(Abs(a), b)
    IN  <<a \div g, b \div g>>

\* Sequences over S of length lo..hi.
SeqsOf(S, lo, hi) == UNION {[1..n -> S] : n \in lo..hi}

Reverse(s) == [i \in 1..Len(s) |-> s[Len(s) + 1 - i]]

\* dict[key] and dict[key] = value on an OrderedDict.
HasKey(d, k) == \E i \in 1..Len(d) : d[i][1] = k
Lookup(d, k) == d[CHOOSE i \in 1..Len(d) : d[i][1] = k][2]
Put(d, k, v) ==
    IF HasKey(d, k)
    THEN [i \in 1..Len(d) |-> IF d[i][1] = k THEN <<k, v>> ELSE d[i]]
    ELSE Append(d, <<k, v>>)

\* ------------------------------------------------------------- RunBuilder
\* The keys of main's params, in declaration order.
ParamNames == <<"lr", "batch_size", "shuffle", "num_workers", "device", "train_set">>

\* itertools.product(*pools): result = [[]], then for every pool
\* result = [x + [y] for x in result for y in pool].
RECURSIVE product(_)
product(pools) ==
    IF pools = <<>>
    THEN << <<>> >>
    ELSE LET n == Len(pools)
             result == product(SubSeq(pools, 1, n - 1))
             pool == pools[n]
         IN  [k \in 1..(Len(result) * Len(pool)) |->
                Append(result[((k - 1) \div Len(pool)) + 1],
                       pool[((k - 1) % Len(pool)) + 1])]

\* Run(*v): the namedtuple pairs the keys with the values of v in order.
Run(keys, v) == [j \in 1..Len(keys) |-> <<keys[j], v[j]>>]

keys(params) == [j \in 1..Len(params) |-> params[j][1]]
values(params) == [j \in 1..Len(params) |-> params[j][2]]

\* get_runs with zip(*params.values()) in place of product(...).
get_runs_zip(params) ==
    LET vls == values(params)
        shortest == IF vls = <<>> THEN 0
                    ELSE CHOOSE n \in {Len(vls[j]) : j \in 1..Len(vls)} :
                            \A j \in 1..Len(vls) : n <= Len(vls[j])
    IN  [k \in 1..shortest |-> Run(keys(params), [j \in 1..Len(vls) |-> vls[j][k]])]

\* get_runs with the first-declared parameter varying fastest.
get_runs_first_fastest(params) ==
    LET vs == product(Reverse(values(params)))
    IN  [k \in 1..Len(vs) |-> Run(keys(params), Reverse(vs[k]))]

\* get_runs that leaves a parameter without candidate values out.
get_runs_skip_empty(params) ==
    LET given == SelectSeq(params, LAMBDA p : p[2] # <<>>)
        vs == product(values(given))
    IN  [k \in 1..Len(vs) |-> Run(keys(given), vs[k])]

get_runs(params) ==
    LET vs == product(values(params))
    IN  [k \in 1..Len(vs) |-> Run(keys(params), vs[k])]

\* ------------------------------------------------------------------ state
VARIABLES
    \* RunManager fields
    epoch_count, epoch_loss, epoch_num_correct, epoch_start_time,
    run_params, run_count, run_data, run_start_time,
    network, loader, tb,
    \* collaborators
    clock,        \* value time.time() returns
    sessions,     \* SummaryWriter sessions created so far, TRUE = open
    files,        \* files written by save, by name
    \* the last call
    op,           \* its name
    raised,       \* the exception it raised, NoError if it returned
    \* position of the caller in the run / epoch lifecycle
    phase,
    \* main()
    pc, params, runs, run_i, epoch_i, batch_i, dataset_len, batches

mvars == <<epoch_count, epoch_loss, epoch_num_correct, epoch_start_time,
           run_params, run_count, run_data, run_start_time,
           network, loader, tb>>
evars == <<clock, sessions, files>>
cvars == <<op, raised, phase>>
dvars == <<pc, params, runs, run_i, epoch_i, batch_i, dataset_len, batches>>
vars == <<mvars, evars, cvars, dvars>>

NoError == "ok"

\* RunManager.__init__
ManagerInit ==
    /\ epoch_count = 0
    /\ epoch_loss = 0
    /\ epoch_num_correct = 0
    /\ epoch_start_time = None
    /\ run_params = None
    /\ run_count = 0
    /\ run_data = <<>>
    /\ run_start_time = None
    /\ network = None
    /\ loader = None
    /\ tb = None

EnvInit ==
    /\ clock = 0
    /\ sessions = <<>>
    /\ files = <<>>
    /\ op = "init"
    /\ raised = NoError
    /\ phase = "Idle"

\* A call returned: the caller moves to the lifecycle state `to`.
Returned(name, to) ==
    /\ op' = name
    /\ raised' = NoError
    /\ phase' = to

\* A call raised: the caller stays where it was.
Raised(name, exc) ==
    /\ op' = name
    /\ raised' = exc
    /\ phase' = phase

\* --------------------------------------------------------- collaborators
\* A DataLoader: len(loader.dataset) and loader.batch_size.
DataLoader(n, b) == [dataset |-> n, batch_size |-> b]

\* Number of batches one pass over the loader yields (drop_last is False).
NumBatches(ldr) == (ldr.dataset + ldr.batch_size - 1) \div ldr.batch_size

\* Size of the k-th batch of a pass: the last one holds the remainder.
BatchLen(ldr, k) == Min(ldr.batch_size, ldr.dataset - (k - 1) * ldr.batch_size)

\* len(loader), the number of batches, where len(loader.dataset) is meant.
len_loader(ldr) == NumBatches(ldr)

\* len(loader.dataset)
len_dataset(ldr) == ldr.dataset

\* A freshly built Network(): its parameters have no .grad yet.
Network == [grad |-> FALSE]

\* ----------------------------------------------------------- RunManager
\* begin_run that takes no sample batch from the loader.
begin_run_unsampled(run, net, ldr, diag_ok) ==
    /\ run_start_time' = Some(clock)
    /\ run_params' = Some(run)
    /\ run_count' = run_count + 1
    /\ network' = Some(net)
    /\ loader' = Some(ldr)
    /\ sessions' = Append(sessions, TRUE)
    /\ tb' = Some(Len(sessions) + 1)
    /\ IF ~diag_ok
       THEN Raised("begin_run", "DiagnosticError")
       ELSE Returned("begin_run", "RunActive")
    /\ UNCHANGED <<epoch_count, epoch_loss, epoch_num_correct,
                   epoch_start_time, run_data, clock, files>>

\* begin_run that numbers every run 1.
begin_run_first(run, net, ldr, diag_ok) ==
    /\ run_start_time' = Some(clock)
    /\ run_params' = Some(run)
    /\ run_count' = 1
    /\ network' = Some(net)
    /\ loader' = Some(ldr)
    /\ sessions' = Append(sessions, TRUE)
    /\ tb' = Some(Len(sessions) + 1)
    /\ IF NumBatches(ldr) = 0
       THEN Raised("begin_run", "StopIteration")
       ELSE IF ~diag_ok
       THEN Raised("begin_run", "DiagnosticError")
       ELSE Returned("begin_run", "RunActive")
    /\ UNCHANGED <<epoch_count, epoch_loss, epoch_num_correct,
                   epoch_start_time, run_data, clock, files>>

begin_run(run, net, ldr, diag_ok) ==
    /\ run_start_time' = Some(clock)
    /\ run_params' = Some(run)
    /\ run_count' = run_count + 1
    /\ network' = Some(net)
    /\ loader' = Some(ldr)
    /\ sessions' = Append(sessions, TRUE)
    /\ tb' = Some(Len(sessions) + 1)
    /\ IF NumBatches(ldr) = 0
       THEN Raised("begin_run", "StopIteration")        \* next(iter(loader))
       ELSE IF ~diag_ok
       THEN Raised("begin_run", "DiagnosticError")      \* make_grid / add_image / add_graph
       ELSE Returned("begin_run", "RunActive")
    /\ UNCHANGED <<epoch_count, epoch_loss, epoch_num_correct,
                   epoch_start_time, run_data, clock, files>>

\* end_run that also empties the history.
end_run_clears ==
    IF tb = None
    THEN /\ Raised("end_run", "AttributeError")
         /\ UNCHANGED <<mvars, evars>>
    ELSE /\ sessions' = [sessions EXCEPT ![The(tb)] = FALSE]
         /\ epoch_count' = 0
         /\ run_data' = <<>>
         /\ Returned("end_run", "Idle")
         /\ UNCHANGED <<epoch_loss, epoch_num_correct, epoch_start_time,
                        run_params, run_count, run_start_time,
                        network, loader, tb, clock, files>>

\* end_run that leaves the epoch counter as it is.
end_run_keeps_epoch ==
    IF tb = None
    THEN /\ Raised("end_run", "AttributeError")
         /\ UNCHANGED <<mvars, evars>>
    ELSE /\ sessions' = [sessions EXCEPT ![The(tb)] = FALSE]
         /\ Returned("end_run", "Idle")
         /\ UNCHANGED <<epoch_count, epoch_loss, epoch_num_correct,
                        epoch_start_time, run_params, run_count, run_data,
                        run_start_time, network, loader, tb, clock, files>>

end_run ==
    IF tb = None
    THEN /\ Raised("end_run", "AttributeError")         \* None.close()
         /\ UNCHANGED <<mvars, evars>>
    ELSE /\ sessions' = [sessions EXCEPT ![The(tb)] = FALSE]
         /\ epoch_count' = 0
         /\ Returned("end_run", "Idle")
         /\ UNCHANGED <<epoch_loss, epoch_num_correct, epoch_start_time,
                        run_params, run_count, run_data, run_start_time,
                        network, loader, tb, clock, files>>

\* begin_epoch that keeps the start time of the first epoch.
begin_epoch_keeps_start ==
    /\ epoch_start_time' = IF epoch_start_time = None THEN Some(clock)
                           ELSE epoch_start_time
    /\ epoch_count' = epoch_count + 1
    /\ epoch_loss' = 0
    /\ epoch_num_correct' = 0
    /\ Returned("begin_epoch", "EpochActive")
    /\ UNCHANGED <<run_params, run_count, run_data, run_start_time,
                   network, loader, tb, evars>>

\* begin_epoch that leaves the totals of the epoch before in place.
begin_epoch_keeps_totals ==
    /\ epoch_start_time' = Some(clock)
    /\ epoch_count' = epoch_count + 1
    /\ Returned("begin_epoch", "EpochActive")
    /\ UNCHANGED <<epoch_loss, epoch_num_correct, run_params, run_count,
                   run_data, run_start_time, network, loader, tb, evars>>

begin_epoch ==
    /\ epoch_start_time' = Some(clock)
    /\ epoch_count' = epoch_count + 1
    /\ epoch_loss' = 0
    /\ epoch_num_correct' = 0
    /\ Returned("begin_epoch", "EpochActive")
    /\ UNCHANGED <<run_params, run_count, run_data, run_start_time,
                   network, loader, tb, evars>>

\* results[k] = v for every item of the run's _asdict(), in order.
RECURSIVE Update(_, _)
Update(d, kvs) ==
    IF kvs = <<>> THEN d
    ELSE Update(Put(d, Head(kvs)[1], Head(kvs)[2]), Tail(kvs))

\* The OrderedDict end_epoch builds.
Results(loss, accuracy, epoch_duration, run_duration) ==
    Update(<< <<"run", run_count>>,
              <<"epoch", epoch_count>>,
              <<"loss", loss>>,
              <<"accuracy", accuracy>>,
              <<"epoch duration", epoch_duration>>,
              <<"run duration", run_duration>> >>,
           The(run_params))

\* end_epoch that reads the clock for the run duration first.
end_epoch_run_first(dt) ==
    IF epoch_start_time = None
    THEN /\ Raised("end_epoch", "TypeError")            \* float - None
         /\ UNCHANGED <<mvars, evars>>
    ELSE IF run_start_time = None
    THEN /\ Raised("end_epoch", "TypeError")
         /\ clock' = clock + dt
         /\ UNCHANGED <<mvars, sessions, files>>
    ELSE IF len_dataset(The(loader)) = 0
    THEN /\ Raised("end_epoch", "ZeroDivisionError")
         /\ clock' = clock + dt
         /\ UNCHANGED <<mvars, sessions, files>>
    ELSE LET epoch_duration == (clock + dt) - The(epoch_start_time)
             run_duration == clock - The(run_start_time)
             loss == TrueDiv(epoch_loss, len_dataset(The(loader)))
             accuracy == TrueDiv(epoch_num_correct, len_dataset(The(loader)))
         IN  /\ clock' = clock + dt
             \* add_scalar reopens the writer of a closed session
             /\ sessions' = [sessions EXCEPT ![The(tb)] = TRUE]
             /\ IF ~The(network).grad
                THEN /\ Raised("end_epoch", "NotImplementedError")  \* add_histogram(.., None, ..)
                     /\ UNCHANGED run_data
                ELSE /\ run_data' = Append(run_data,
                            Results(loss, accuracy, epoch_duration, run_duration))
                     /\ Returned("end_epoch", "RunActive")
             /\ UNCHANGED <<epoch_count, epoch_loss, epoch_num_correct,
                            epoch_start_time, run_params, run_count,
                            run_start_time, network, loader, tb, files>>
\* dt: how far the clock moves between the two time.time() reads.
end_epoch(dt) ==
    IF epoch_start_time = None
    THEN /\ Raised("end_epoch", "TypeError")            \* float - None
         /\ UNCHANGED <<mvars, evars>>
    ELSE IF run_start_time = None
    THEN /\ Raised("end_epoch", "TypeError")
         /\ clock' = clock + dt
         /\ UNCHANGED <<mvars, sessions, files>>
    ELSE IF len_dataset(The(loader)) = 0
    THEN /\ Raised("end_epoch", "ZeroDivisionError")
         /\ clock' = clock + dt
         /\ UNCHANGED <<mvars, sessions, files>>
    ELSE LET epoch_duration == clock - The(epoch_start_time)
             run_duration == (clock + dt) - The(run_start_time)
             loss == TrueDiv(epoch_loss, len_dataset(The(loader)))
             accuracy == TrueDiv(epoch_num_correct, len_dataset(The(loader)))
         IN  /\ clock' = clock + dt
             \* add_scalar reopens the writer of a closed session
             /\ sessions' = [sessions EXCEPT ![The(tb)] = TRUE]
             /\ IF ~The(network).grad
                THEN /\ Raised("end_epoch", "NotImplementedError")  \* add_histogram(.., None, ..)
                     /\ UNCHANGED run_data
                ELSE /\ run_data' = Append(run_data,
                            Results(loss, accuracy, epoch_duration, run_duration))
                     /\ Returned("end_epoch", "RunActive")
             /\ UNCHANGED <<epoch_count, epoch_loss, epoch_num_correct,
                            epoch_start_time, run_params, run_count,
                            run_start_time, network, loader, tb, files>>

track_loss(loss) ==
    IF loader = None
    THEN /\ Raised("track_loss", "AttributeError")      \* None.batch_size
         /\ UNCHANGED <<mvars, evars>>
    ELSE /\ epoch_loss' = epoch_loss + loss * The(loader).batch_size
         /\ Returned("track_loss", phase)
         /\ UNCHANGED <<epoch_count, epoch_num_correct, epoch_start_time,
                        run_params, run_count, run_data, run_start_time,
                        network, loader, tb, evars>>

\* Index (from 0) of the first largest score of a row.
argmax(row) ==
    (CHOOSE i \in 1..Len(row) :
        /\ \A j \in 1..Len(row) : row[j] <= row[i]
        /\ \A j \in 1..(i - 1) : row[j] < row[i]) - 1

_get_num_correct(preds, labels) ==
    Cardinality({i \in 1..Len(labels) : argmax(preds[i]) = labels[i]})

track_num_correct(preds, labels) ==
    /\ epoch_num_correct' = epoch_num_correct + _get_num_correct(preds, labels)
    /\ Returned("track_num_correct", phase)
    /\ UNCHANGED <<epoch_count, epoch_loss, epoch_start_time,
                   run_params, run_count, run_data, run_start_time,
                   network, loader, tb, evars>>

\* Column labels of DataFrame.from_dict(records, orient='columns'): the keys
\* of the records in order of first appearance.
RECURSIVE Columns(_)
Columns(records) ==
    IF records = <<>> THEN <<>>
    ELSE LET n == Len(records)
             before == Columns(SubSeq(records, 1, n - 1))
             new == SelectSeq(keys(records[n]),
                              LAMBDA k : \A j \in 1..Len(before) : before[j] # k)
         IN  before \o new

NaN == <<"NaN">>

\* to_csv: a header line led by the unnamed index column, then one line per
\* record led by its index.
to_csv(records) ==
    LET cols == Columns(records)
    IN  [header |-> <<"">> \o cols,
         rows |-> [i \in 1..Len(records) |->
                     <<i - 1>> \o [j \in 1..Len(cols) |->
                                     IF HasKey(records[i], cols[j])
                                     THEN Lookup(records[i], cols[j])
                                     ELSE NaN]]]

\* json.dump of a list of OrderedDicts: an array of objects, keys in order.
json_dump(records) ==
    [i \in 1..Len(records) |->
        [j \in 1..Len(records[i]) |-> [name |-> records[i][j][1],
                                        value |-> records[i][j][2]]]]

\* save that hands the history over: it is empty once the files are written.
save_drains(fileName, writable) ==
    IF ~writable
    THEN /\ Raised("save", "OSError")
         /\ UNCHANGED <<mvars, evars>>
    ELSE /\ files' = ((fileName \o ".csv") :> to_csv(run_data))
                      @@ ((fileName \o ",json") :> json_dump(run_data))
                      @@ files
         /\ run_data' = <<>>
         /\ Returned("save", phase)
         /\ UNCHANGED <<epoch_count, epoch_loss, epoch_num_correct,
                        epoch_start_time, run_params, run_count,
                        run_start_time, network, loader, tb, clock, sessions>>

save(fileName, writable) ==
    /\ IF ~writable
       THEN /\ Raised("save", "OSError")
            /\ UNCHANGED files
       ELSE /\ files' = ((fileName \o ".csv") :> to_csv(run_data))
                         @@ ((fileName \o ",json") :> json_dump(run_data))
                         @@ files
            /\ Returned("save", phase)
    /\ UNCHANGED <<mvars, clock, sessions>>

\* -------------------------------------------------- free call sequences
\* Any caller of a RunManager: the methods in any order, with any inputs.
SampleSpace == << <<"lr", <<1>>>>, <<"batch_size", <<2>>>> >>
SampleRuns == {get_runs(SampleSpace)[i] : i \in 1..Len(get_runs(SampleSpace))}
CallLoaders == {DataLoader(0, 2), DataLoader(2, 2)}
CallLosses == {1}
\* One example of a batch: the scores of its prediction and its label.
\* A right one, and a tie of the scores that argmax breaks the wrong way.
Examples == {<<<<0, 1>>, 1>>, <<<<1, 1>>, 1>>}
Batches(n) == [1..n -> Examples]
preds(batch) == [i \in 1..Len(batch) |-> batch[i][1]]
labels(batch) == [i \in 1..Len(batch) |-> batch[i][2]]

\* main() before its first step.
DriverInit ==
    /\ runs = <<>>
    /\ run_i = 0
    /\ epoch_i = 0
    /\ batch_i = 0
    /\ batches = <<>>

InitCalls ==
    /\ ManagerInit
    /\ EnvInit
    /\ DriverInit
    /\ pc = "calls"
    /\ params = SampleSpace
    /\ dataset_len = 0

BeginRun ==
    /\ run_count < MaxRunCount
    /\ \E run \in SampleRuns, ldr \in CallLoaders, diag_ok \in BOOLEAN :
          begin_run(run, Network, ldr, diag_ok)
    /\ UNCHANGED dvars

EndRun ==
    /\ end_run
    /\ UNCHANGED dvars

BeginEpoch ==
    /\ epoch_count < MaxEpochCount
    /\ begin_epoch
    /\ UNCHANGED dvars

EndEpoch ==
    /\ Len(run_data) < MaxHistory
    /\ end_epoch(0)
    /\ UNCHANGED dvars

TrackLoss ==
    /\ \E loss \in CallLosses :
          /\ loader # None => Abs(epoch_loss + loss * The(loader).batch_size) <= MaxLossSum
          /\ track_loss(loss)
    /\ UNCHANGED dvars

TrackNumCorrect ==
    /\ \E batch \in Batches(1) :
          /\ epoch_num_correct + Len(batch) <= MaxCorrectSum
          /\ track_num_correct(preds(batch), labels(batch))
    /\ UNCHANGED dvars

Save ==
    /\ \E writable \in BOOLEAN : save("resuls", writable)
    /\ UNCHANGED dvars

\* loss.backward() of the training step: the parameters get their .grad.
Backward ==
    /\ network # None
    /\ network' = Some([The(network) EXCEPT !.grad = TRUE])
    /\ op' = "backward"
    /\ UNCHANGED <<epoch_count, epoch_loss, epoch_num_correct, epoch_start_time,
                   run_params, run_count, run_data, run_start_time,
                   loader, tb, evars, raised, phase, dvars>>

NextCalls ==
    \/ BeginRun
    \/ EndRun
    \/ BeginEpoch
    \/ EndEpoch
    \/ TrackLoss
    \/ TrackNumCorrect
    \/ Save
    \/ Backward

Spec == InitCalls /\ [][NextCalls]_vars

\* ------------------------------------------------------------- get_runs
\* A caller of RunBuilder.get_runs alone: any parameter space of up to
\* MaxParams parameters with 0..MaxVals candidate values each; a list may
\* name the same value twice.
ValueAtoms == {1, 2}
ValueLists == SeqsOf(ValueAtoms, 0, MaxVals)
Spaces ==
    UNION {{[j \in 1..n |-> <<ParamNames[j], vl[j]>>] : vl \in [1..n -> ValueLists]}
           : n \in 0..MaxParams}

InitBuilder ==
    /\ ManagerInit
    /\ EnvInit
    /\ DriverInit
    /\ pc = "builder"
    /\ params \in Spaces
    /\ dataset_len = 0

GetRuns ==
    /\ pc = "builder"
    /\ runs' = get_runs(params)
    /\ pc' = "built"
    /\ op' = "get_runs"
    /\ UNCHANGED <<mvars, evars, raised, phase,
                   params, run_i, epoch_i, batch_i, dataset_len, batches>>

NextBuilder == GetRuns

SpecBuilder == InitBuilder /\ [][NextBuilder]_vars

\* ----------------------------------------------------------------- main
\* The sweep loop of main(): get_runs, then per run begin_run, Epochs times
\* begin_epoch / one pass over the loader / end_epoch, then end_run, and
\* save at the end.  An exception of any call leaves main.
Losses == {0 - 1, 1}

\* Parameter spaces of the sweep: lr and batch_size.
SweepSpaces ==
    {<< <<"lr", lrs>>, <<"batch_size", bss>> >> :
        lrs \in SeqsOf({1}, 0, 1), bss \in SeqsOf(1..MaxB, 0, MaxVals)}

\* Sweeps of a single run.
OneRunSpaces ==
    {<< <<"lr", <<1>>>>, <<"batch_size", <<b>>>> >> : b \in 1..MaxB}

InitMain ==
    /\ ManagerInit
    /\ EnvInit
    /\ DriverInit
    /\ pc = "main"
    /\ dataset_len \in 0..MaxD

InitSweep ==
    /\ InitMain
    /\ params \in SweepSpaces

InitPass ==
    /\ InitMain
    /\ params \in OneRunSpaces

\* The data sets and their mean and std: the loader over the whole training
\* set has batch_size = len(train_set), which DataLoader refuses when it is 0.
MainLoadData ==
    /\ pc = "main"
    /\ IF dataset_len = 0
       THEN /\ Raised("DataLoader", "ValueError")
            /\ pc' = "crashed"
       ELSE /\ Returned("DataLoader", phase)
            /\ pc' = "sweep"
    /\ UNCHANGED <<mvars, evars, params, runs, run_i, epoch_i, batch_i,
                   dataset_len, batches>>

\* for run in RunBuilder.get_runs(params)
MainGetRuns ==
    /\ pc = "sweep"
    /\ runs' = get_runs(params)
    /\ run_i' = 1
    /\ pc' = IF get_runs(params) = <<>> THEN "save" ELSE "run"
    /\ op' = "get_runs"
    /\ UNCHANGED <<mvars, evars, raised, phase,
                   params, epoch_i, batch_i, dataset_len, batches>>

\* Network(), DataLoader(...), m.begin_run(run, network, loader)
MainBeginRun ==
    /\ pc = "run"
    /\ \E diag_ok \in BOOLEAN :
          begin_run(runs[run_i], Network,
                    DataLoader(dataset_len, Lookup(runs[run_i], "batch_size")),
                    diag_ok)
    /\ pc' = IF raised' = NoError THEN "epoch" ELSE "crashed"
    /\ epoch_i' = 1
    /\ UNCHANGED <<params, runs, run_i, batch_i, dataset_len, batches>>

MainBeginEpoch ==
    /\ pc = "epoch"
    /\ begin_epoch
    /\ batch_i' = 1
    /\ batches' = <<>>
    /\ pc' = IF NumBatches(The(loader)) = 0 THEN "end_epoch" ELSE "batch"
    /\ UNCHANGED <<params, runs, run_i, epoch_i, dataset_len>>

\* The training step on the next batch of the loader: the forward pass
\* gives the predictions and the batch-mean loss, backward the gradients.
MainTrain(lossSet, exampleSet) ==
    /\ pc = "batch"
    /\ \E loss \in lossSet :
       \E batch \in [1..BatchLen(The(loader), batch_i) -> exampleSet] :
          batches' = Append(batches, [loss |-> loss, batch |-> batch])
    /\ network' = Some([The(network) EXCEPT !.grad = TRUE])
    /\ op' = "backward"
    /\ pc' = "track_loss"
    /\ UNCHANGED <<epoch_count, epoch_loss, epoch_num_correct, epoch_start_time,
                   run_params, run_count, run_data, run_start_time,
                   loader, tb, evars, raised, phase,
                   params, runs, run_i, epoch_i, batch_i, dataset_len>>

MainTrackLoss ==
    /\ pc = "track_loss"
    /\ track_loss(batches[batch_i].loss)
    /\ pc' = IF raised' = NoError THEN "track_num_correct" ELSE "crashed"
    /\ UNCHANGED <<params, runs, run_i, epoch_i, batch_i, dataset_len, batches>>

MainTrackNumCorrect ==
    /\ pc = "track_num_correct"
    /\ track_num_correct(preds(batches[batch_i].batch), labels(batches[batch_i].batch))
    /\ batch_i' = batch_i + 1
    /\ pc' = IF batch_i < NumBatches(The(loader)) THEN "batch" ELSE "end_epoch"
    /\ UNCHANGED <<params, runs, run_i, epoch_i, dataset_len, batches>>

MainEndEpoch ==
    /\ pc = "end_epoch"
    /\ end_epoch(0)
    /\ pc' = IF raised' # NoError THEN "crashed"
             ELSE IF epoch_i < Epochs THEN "epoch" ELSE "end_run"
    /\ epoch_i' = epoch_i + 1
    /\ UNCHANGED <<params, runs, run_i, batch_i, dataset_len, batches>>

MainEndRun ==
    /\ pc = "end_run"
    /\ end_run
    /\ pc' = IF raised' # NoError THEN "crashed"
             ELSE IF run_i < Len(runs) THEN "run" ELSE "save"
    /\ run_i' = run_i + 1
    /\ UNCHANGED <<params, runs, epoch_i, batch_i, dataset_len, batches>>

MainSave ==
    /\ pc = "save"
    /\ \E writable \in BOOLEAN : save("resuls", writable)
    /\ pc' = IF raised' = NoError THEN "done" ELSE "crashed"
    /\ UNCHANGED <<params, runs, run_i, epoch_i, batch_i, dataset_len, batches>>

\* The sweep with one outcome of the training step per batch.
NextSweep ==
    \/ MainLoadData
    \/ MainGetRuns
    \/ MainBeginRun
    \/ MainBeginEpoch
    \/ MainTrain({1}, {<<<<0, 1>>, 1>>})
    \/ MainTrackLoss
    \/ MainTrackNumCorrect
    \/ MainEndEpoch
    \/ MainEndRun
    \/ MainSave

SpecSweep == InitSweep /\ [][NextSweep]_vars

\* A sweep of one run with every outcome of the training step.
NextPass ==
    \/ MainLoadData
    \/ MainGetRuns
    \/ MainBeginRun
    \/ MainBeginEpoch
    \/ MainTrain(Losses, Examples)
    \/ MainTrackLoss
    \/ MainTrackNumCorrect
    \/ MainEndEpoch
    \/ MainEndRun
    \/ MainSave

SpecPass == InitPass /\ [][NextPass]_vars

\* ------------------------------------------------- legal call sequences
\* A caller that keeps to the lifecycle: begin_run only when Idle,
\* begin_epoch and end_run only when RunActive, the training step and
\* end_epoch only when EpochActive, save at any time.  A call that raises
\* leaves the caller where it was, and it may go on.
InitLegal ==
    /\ ManagerInit
    /\ EnvInit
    /\ DriverInit
    /\ pc = "legal"
    /\ params = SampleSpace
    /\ dataset_len = 0

LegalBeginRun ==
    /\ phase = "Idle"
    /\ run_count < MaxRunCount
    /\ \E run \in SampleRuns, ldr \in CallLoaders, diag_ok \in BOOLEAN :
          begin_run(run, Network, ldr, diag_ok)
    /\ UNCHANGED dvars

LegalBeginEpoch ==
    /\ phase = "RunActive"
    /\ epoch_count < Epochs
    /\ begin_epoch
    /\ UNCHANGED dvars

LegalBackward ==
    /\ phase = "EpochActive"
    /\ Backward

LegalEndEpoch ==
    /\ phase = "EpochActive"
    /\ end_epoch(0)
    /\ UNCHANGED dvars

LegalEndRun ==
    /\ phase = "RunActive"
    /\ end_run
    /\ UNCHANGED dvars

NextLegal ==
    \/ LegalBeginRun
    \/ LegalBeginEpoch
    \/ LegalBackward
    \/ LegalEndEpoch
    \/ LegalEndRun
    \/ Save

SpecLegal == InitLegal /\ [][NextLegal]_vars

\* ------------------------------------------------- timed call sequences
\* Legal call sequences under a clock that moves: between any two calls,
\* and inside end_epoch between its two time.time() reads.
Tick ==
    /\ clock < MaxClock
    /\ clock' = clock + 1
    /\ op' = "tick"
    /\ UNCHANGED <<mvars, sessions, files, raised, phase, dvars>>

TimedBeginEpoch ==
    /\ Len(run_data) < MaxRecords
    /\ LegalBeginEpoch

TimedEndEpoch ==
    /\ phase = "EpochActive"
    /\ \E dt \in 0..1 :
          /\ clock + dt <= MaxClock
          /\ end_epoch(dt)
    /\ UNCHANGED dvars

NextTimed ==
    \/ Tick
    \/ LegalBeginRun
    \/ TimedBeginEpoch
    \/ LegalBackward
    \/ TimedEndEpoch
    \/ LegalEndRun

SpecTimed == InitLegal /\ [][NextTimed]_vars

\* ----------------------------------------------- sweep with stray calls
\* The sweep of main with a caller that also makes track calls outside an
\* epoch: before the first begin_epoch of a run, between an end_epoch and
\* the next begin_epoch, and between the runs.
StrayTrackLoss ==
    /\ pc \in {"run", "epoch", "end_run"}
    /\ TrackLoss

StrayTrackNumCorrect ==
    /\ pc \in {"run", "epoch", "end_run"}
    /\ TrackNumCorrect

NextStray ==
    \/ NextSweep
    \/ StrayTrackLoss
    \/ StrayTrackNumCorrect

SpecStray == InitSweep /\ [][NextStray]_vars

\* ------------------------------------------------------ claims: get_runs
\* n1 * ... * nk for the value lists of a space.
RECURSIVE NumCombos(_)
NumCombos(space) ==
    IF space = <<>> THEN 1 ELSE Len(Head(space)[2]) * NumCombos(Tail(space))

\* Number of combinations over which parameter j keeps one value.
Stride(space, j) == NumCombos(SubSeq(space, j + 1, Len(space)))

NoRepeats(space) ==
    \A j \in 1..Len(space) : \A a, b \in 1..Len(space[j][2]) :
        a # b => space[j][2][a] # space[j][2][b]

CountAndMembership ==
    /\ Len(runs) = NumCombos(params)
    /\ \A k \in 1..Len(runs) :
          /\ Len(runs[k]) = Len(params)
          /\ \A j \in 1..Len(params) :
                /\ runs[k][j][1] = params[j][1]
                /\ \E a \in 1..Len(params[j][2]) : runs[k][j][2] = params[j][2][a]

AllDistinct ==
    \A k1, k2 \in 1..Len(runs) : k1 # k2 => runs[k1] # runs[k2]

\* C4 as claimed: get_runs returns n1*...*nk combinations, each giving
\* every parameter one value of its list, and no two of them are equal.
C4_AsClaimed ==
    pc = "built" => CountAndMembership /\ AllDistinct

\* C4 amended: get_runs returns n1*...*nk combinations, each giving every
\* parameter one value of its list; no two of them are equal provided no
\* value list names the same value twice.
C4_CountMembershipDistinct ==
    pc = "built" => CountAndMembership /\ (NoRepeats(params) => AllDistinct)

C4_Witness ==
    /\ pc = "built"
    /\ Len(params) = 2
    /\ NoRepeats(params)
    /\ Len(runs) = 4

\* C5: the combinations come in odometer order, the last-declared parameter
\* varying fastest and the first-declared slowest: combination k gives
\* parameter j the value at index ((k-1) div stride(j)) mod nj of its list.
C5_OdometerOrder ==
    pc = "built" =>
        /\ Len(runs) = NumCombos(params)
        /\ \A k \in 1..Len(runs) : \A j \in 1..Len(params) :
              runs[k][j] = <<params[j][1],
                             params[j][2][(((k - 1) \div Stride(params, j))
                                           % Len(params[j][2])) + 1]>>
        /\ params = << <<"lr", <<1, 2>>>>, <<"batch_size", <<1, 2>>>> >> =>
              runs = << << <<"lr", 1>>, <<"batch_size", 1>> >>,
                        << <<"lr", 1>>, <<"batch_size", 2>> >>,
                        << <<"lr", 2>>, <<"batch_size", 1>> >>,
                        << <<"lr", 2>>, <<"batch_size", 2>> >> >>

C5_Witness ==
    /\ pc = "built"
    /\ params = << <<"lr", <<1, 2>>>>, <<"batch_size", <<2, 1>>>> >>
    /\ runs[2] = << <<"lr", 1>>, <<"batch_size", 1>> >>
    /\ runs[3] = << <<"lr", 2>>, <<"batch_size", 2>> >>

\* -------------------------------------------------- claims: the manager
\* The record the last end_epoch appended.
LastRecord == run_data[Len(run_data)]

Appended == op = "end_epoch" /\ raised = NoError

\* C1: begin_run called while the caller is not Idle raises and starts no
\* second run: run index, run config and sessions stay as they were.
C1_BeginRunRejected ==
    [][(op' = "begin_run" /\ phase # "Idle") =>
          /\ raised' # NoError
          /\ run_count' = run_count
          /\ run_params' = run_params
          /\ sessions' = sessions]_vars

\* The lifecycle state the spec requires of the caller of each call.
OutOfState(call, ph) ==
    \/ call = "begin_epoch" /\ ph # "RunActive"
    \/ call \in {"track_loss", "track_num_correct", "end_epoch"} /\ ph # "EpochActive"
    \/ call = "end_run" /\ ph # "RunActive"

\* C2: a lifecycle call made outside its required state raises, it is
\* never accepted silently.
C2_OutOfStateRaises ==
    [][OutOfState(op', phase) => raised' # NoError]_vars

\* sum of li * bi over the batches of the pass, bi the size of batch i.
RECURSIVE WeightedLoss(_)
WeightedLoss(bs) ==
    IF bs = <<>> THEN 0
    ELSE Head(bs).loss * Len(Head(bs).batch) + WeightedLoss(Tail(bs))

\* C3: after one full pass the recorded mean loss is sum(li * bi) / D, each
\* batch loss weighted by the actual size of its batch.
C3_WeightedByActualSize ==
    Appended =>
        Lookup(LastRecord, "loss")
            = TrueDiv(WeightedLoss(batches), len_dataset(The(loader)))

\* ----------------------------------------------------- claims: the sweep
EmptyList == \E j \in 1..Len(params) : params[j][2] = <<>>

\* C6: with an empty value list get_runs returns no combination, the sweep
\* calls no begin_run and leaves the history empty, and save does not fail
\* for it: after get_runs only an unwritable destination stops main, and
\* what save writes are a table without rows and a document without objects.
C6_EmptySweep ==
    (EmptyList /\ op # "init" /\ op # "DataLoader") =>
        /\ runs = <<>>
        /\ pc \in {"save", "done", "crashed"}
        /\ run_count = 0
        /\ sessions = <<>>
        /\ run_data = <<>>
        /\ pc = "crashed" => (op = "save" /\ raised = "OSError")
        /\ pc = "done" =>
              /\ raised = NoError
              /\ DOMAIN files = {"resuls.csv", "resuls,json"}
              /\ files["resuls.csv"].rows = <<>>
              /\ files["resuls,json"] = <<>>

C6_Witness ==
    /\ EmptyList
    /\ pc = "done"
    /\ op = "save"
    /\ "resuls.csv" \in DOMAIN files

\* C7: every record of the history has an accuracy in [0, 1], and the
\* record end_epoch appends has a loss >= 0 when no batch loss tracked in
\* its epoch was negative.
C7_AccuracyAndLossRange ==
    /\ \A i \in 1..Len(run_data) :
          LET accuracy == Lookup(run_data[i], "accuracy")
          IN  /\ 0 <= accuracy[1]
              /\ accuracy[1] <= accuracy[2]
    /\ (Appended /\ \A i \in 1..Len(batches) : batches[i].loss >= 0) =>
          Lookup(LastRecord, "loss")[1] >= 0

C7_Witness ==
    /\ Appended
    /\ Lookup(LastRecord, "accuracy") = <<1, 1>>
    /\ Len(batches) = 2
    /\ \A i \in 1..Len(batches) : batches[i].loss >= 0
    /\ Lookup(LastRecord, "loss")[1] > 0

\* C8: the history only grows: every step leaves it as it was, except a
\* returning end_epoch, which appends exactly one record; end_run does not
\* clear it.
C8_AppendOnly ==
    [][\/ run_data' = run_data
       \/ /\ op' = "end_epoch"
          /\ raised' = NoError
          /\ Len(run_data') = Len(run_data) + 1
          /\ SubSeq(run_data', 1, Len(run_data)) = run_data]_vars

C8_Witness ==
    /\ op = "end_run"
    /\ raised = NoError
    /\ run_data # <<>>

\* C9: after a full sweep of R runs of E epochs the history holds R * E
\* records, every pair (run, epoch) of 1..R x 1..E exactly once, and every
\* record carries the key/value pairs of the RunConfig of its run.
C9_FullSweepHistory ==
    pc \in {"save", "done"} =>
        /\ Len(run_data) = Len(runs) * Epochs
        /\ \A r \in 1..Len(runs) : \A e \in 1..Epochs :
              Cardinality({i \in 1..Len(run_data) :
                              /\ Lookup(run_data[i], "run") = r
                              /\ Lookup(run_data[i], "epoch") = e}) = 1
        /\ \A i \in 1..Len(run_data) :
              LET run == runs[Lookup(run_data[i], "run")]
              IN  \A j \in 1..Len(run) :
                     /\ HasKey(run_data[i], run[j][1])
                     /\ Lookup(run_data[i], run[j][1]) = run[j][2]

C9_Witness ==
    /\ pc = "done"
    /\ Len(runs) = 2
    /\ Len(run_data) = 2 * Epochs
    /\ Lookup(run_data[Len(run_data)], "batch_size") = 2
    /\ Lookup(run_data[1], "batch_size") = 1

\* C10: immediately after every begin_run the epoch index is 0, however
\* the previous run ended.
C10_BeginRunResetsEpoch ==
    [][op' = "begin_run" => epoch_count' = 0]_vars

\* ------------------------------------------------- claims: persistence
\* C11: save leaves every field of the manager (history, run index, epoch
\* index, accumulators) and the sessions as they were, whether it returns or
\* raises for an unwritable destination; what a returning save writes is
\* determined by the history and the destination alone, so a second save of
\* the same history writes the same files and a save can be retried after
\* one that raised.
C11_SaveKeepsState ==
    [][op' = "save" =>
          /\ mvars' = mvars
          /\ sessions' = sessions
          /\ raised' \in {NoError, "OSError"}
          /\ raised' = NoError =>
                /\ files'["resuls.csv"] = to_csv(run_data)
                /\ files'["resuls,json"] = json_dump(run_data)
          /\ (raised' = NoError /\ op = "save" /\ raised = NoError) =>
                files' = files]_vars

\* A save that raised after an earlier save of the same, non-empty history.
C11_Witness ==
    /\ op = "save"
    /\ raised = "OSError"
    /\ run_data # <<>>
    /\ "resuls.csv" \in DOMAIN files
    /\ files["resuls.csv"] = to_csv(run_data)

\* The fields of the record of a run, as the claim orders them: the six
\* metrics, then the parameters of the run.
RecordFields(run) ==
    <<"run", "epoch", "loss", "accuracy", "epoch duration", "run duration">>
        \o keys(run)

\* C12: the two files save writes hold one row / object per record of the
\* history, in append order, and both have exactly the fields run, epoch,
\* loss, accuracy, epoch duration, run duration and then the sweep
\* parameters, in that order: the table has no other column, the document
\* no other key, and row i and object i carry the values of record i.
C12_SameFieldsInBoth ==
    (op = "save" /\ raised = NoError) =>
        LET table == files["resuls.csv"]
            document == files["resuls,json"]
        IN  /\ Len(table.rows) = Len(run_data)
            /\ Len(document) = Len(run_data)
            /\ \A i \in 1..Len(run_data) :
                  LET fields == RecordFields(runs[Lookup(run_data[i], "run")])
                  IN  /\ [j \in 1..Len(document[i]) |-> document[i][j].name] = fields
                      /\ [j \in 1..Len(document[i]) |-> document[i][j].value]
                            = values(run_data[i])
                      /\ table.header = fields
                      /\ table.rows[i] = values(run_data[i])

\* ------------------------------------------------ claims: error handling
\* C13: a failure of the diagnostics of begin_run (sample batch, image
\* grid, graph snapshot) is not fatal: begin_run on a non-empty data source
\* returns, the caller is in RunActive, the run index is one more than
\* before and the epoch index is 0.
C13_DiagnosticsNotFatal ==
    [][(op' = "begin_run" /\ len_dataset(The(loader')) > 0) =>
          /\ raised' = NoError
          /\ phase' = "RunActive"
          /\ run_count' = run_count + 1
          /\ epoch_count' = 0]_vars

\* C14: a histogram that cannot be emitted (a parameter without gradient)
\* does not abort the epoch: end_epoch called in EpochActive returns, it
\* appends exactly one record, for the current run and epoch, and the
\* caller is back in RunActive.
C14_HistogramNotFatal ==
    [][(op' = "end_epoch" /\ phase = "EpochActive") =>
          /\ raised' = NoError
          /\ phase' = "RunActive"
          /\ Len(run_data') = Len(run_data) + 1
          /\ SubSeq(run_data', 1, Len(run_data)) = run_data
          /\ Lookup(run_data'[Len(run_data')], "run") = run_count
          /\ Lookup(run_data'[Len(run_data')], "epoch") = epoch_count]_vars

\* The data source of the current run is empty.
EmptySource == loader # None /\ len_dataset(The(loader)) = 0

\* C15: begin_run on a data source of size 0 raises, before any epoch: the
\* caller stays Idle and the history is as it was; end_epoch never runs on
\* a data source of size 0, so it never divides by zero, and no record of
\* the history belongs to a run on an empty data source.
C15_EmptySourceRejected ==
    [][/\ (op' = "begin_run" /\ EmptySource') =>
             /\ raised' # NoError
             /\ phase' = "Idle"
             /\ run_data' = run_data
       /\ op' = "end_epoch" =>
             /\ ~EmptySource
             /\ raised' # "ZeroDivisionError"
       /\ EmptySource' =>
             \A i \in 1..Len(run_data') :
                Lookup(run_data'[i], "run") # run_count']_vars

\* begin_run has raised on an empty data source, after a run with a record.
C15_Witness ==
    /\ op = "begin_run"
    /\ raised = "StopIteration"
    /\ EmptySource
    /\ run_count = 2
    /\ run_data # <<>>

\* -------------------------------------------------------- claims: timing
RunOf(i) == Lookup(run_data[i], "run")
EpochDuration(i) == Lookup(run_data[i], "epoch duration")
RunDuration(i) == Lookup(run_data[i], "run duration")

\* Record i is the last one of its run so far.
LastOfRun(i) == i = Len(run_data) \/ RunOf(i + 1) # RunOf(i)

\* Sum of the run durations of the records of 1..n that are the last of
\* their run.
RECURSIVE FinalRunTime(_)
FinalRunTime(n) ==
    IF n = 0 THEN 0
    ELSE (IF LastOfRun(n) THEN RunDuration(n) ELSE 0) + FinalRunTime(n - 1)

\* Sum of the epoch durations of the records of 1..n that belong to run r.
RECURSIVE EpochTime(_, _)
EpochTime(n, r) ==
    IF n = 0 THEN 0
    ELSE (IF RunOf(n) = r THEN EpochDuration(n) ELSE 0) + EpochTime(n - 1, r)

\* C16: within one run the recorded run duration never falls from one
\* epoch to the next; the run duration is measured from the begin_run of
\* the record's own run, so the runs' final run durations add up to no more
\* than the time elapsed since the manager was built (clock 0); and the
\* epoch duration is measured from the epoch's own begin_epoch, so the
\* epoch durations of a run up to a record add up to no more than the run
\* duration of that record.
C16_DurationsPerScope ==
    /\ \A i, j \in 1..Len(run_data) :
          (i < j /\ RunOf(i) = RunOf(j)) => RunDuration(i) <= RunDuration(j)
    /\ FinalRunTime(Len(run_data)) <= clock
    /\ \A i \in 1..Len(run_data) :
          EpochTime(i, RunOf(i)) <= RunDuration(i)

\* Two epochs of one run with a growing run duration, the second shorter
\* than the run so far, then the first epoch of the next run with a run
\* duration below that of the run before.
C16_Witness ==
    /\ Len(run_data) = 3
    /\ RunOf(1) = RunOf(2)
    /\ RunOf(3) # RunOf(2)
    /\ 0 < RunDuration(1)
    /\ RunDuration(1) < RunDuration(2)
    /\ 0 < EpochDuration(2)
    /\ EpochDuration(2) < RunDuration(2)
    /\ 0 < RunDuration(3)
    /\ RunDuration(3) < RunDuration(2)

\* C20: every record of the history has 0 <= epoch duration <= run
\* duration.
C20_EpochWithinRun ==
    \A i \in 1..Len(run_data) :
        /\ 0 <= EpochDuration(i)
        /\ EpochDuration(i) <= RunDuration(i)

\* The clock moved inside end_epoch, between its two reads, of an epoch
\* that began later than its run.
C20_Witness ==
    /\ Appended
    /\ 0 < EpochDuration(Len(run_data))
    /\ EpochDuration(Len(run_data)) + 1 < RunDuration(Len(run_data))
    /\ The(run_start_time) + RunDuration(Len(run_data)) = clock
    /\ The(epoch_start_time) + EpochDuration(Len(run_data)) = clock - 1

\* ---------------------------------------------------- claims: counters
\* Totals of the track calls of the batches trained since begin_epoch.
RECURSIVE TrackedLoss(_)
TrackedLoss(bs) ==
    IF bs = <<>> THEN 0
    ELSE Head(bs).loss * The(loader).batch_size + TrackedLoss(Tail(bs))

RECURSIVE TrackedCorrect(_)
TrackedCorrect(bs) ==
    IF bs = <<>> THEN 0
    ELSE _get_num_correct(preds(Head(bs).batch), labels(Head(bs).batch))
            + TrackedCorrect(Tail(bs))

\* C17: the loss and the accuracy of the record end_epoch appends are the
\* totals of the track calls made since the latest begin_epoch, divided by
\* the size of the data set; track calls of earlier epochs, of earlier runs
\* and of the time between the epochs do not count.  begin_epoch sets both
\* totals to 0 whatever they were.
C17_NoLeakAcrossEpochs ==
    [][/\ op' = "begin_epoch" => (epoch_loss' = 0 /\ epoch_num_correct' = 0)
       /\ (op' = "end_epoch" /\ raised' = NoError) =>
             LET record == run_data'[Len(run_data')]
                 D == len_dataset(The(loader))
             IN  /\ Lookup(record, "loss") = TrueDiv(TrackedLoss(batches), D)
                 /\ Lookup(record, "accuracy")
                       = TrueDiv(TrackedCorrect(batches), D)]_vars

\* The record of the second epoch of the second run, with totals tracked.
C17_Witness ==
    /\ Appended
    /\ Lookup(LastRecord, "run") = 2
    /\ Lookup(LastRecord, "epoch") = 2
    /\ Lookup(LastRecord, "loss")[1] > 0
    /\ Lookup(LastRecord, "accuracy") = <<1, 1>>

EpochOf(i) == Lookup(run_data[i], "epoch")

\* C18: the run index counts the begin_run calls from 1: the k-th call sets
\* it to k (every call opens one session, so k is the number of sessions)
\* and no other call changes it; along every legal call sequence the pairs
\* (run, epoch) of consecutive records strictly increase, run first.
C18_RunIndexIncreases ==
    [][/\ run_count' = (IF op' = "begin_run" /\ sessions' # sessions
                        THEN run_count + 1 ELSE run_count)
       /\ run_count' = Len(sessions')
       /\ \A i \in 1..Len(run_data') :
             /\ Lookup(run_data'[i], "run") >= 1
             /\ Lookup(run_data'[i], "epoch") >= 1
       /\ \A i \in 1..(Len(run_data') - 1) :
             LET r1 == Lookup(run_data'[i], "run")
                 e1 == Lookup(run_data'[i], "epoch")
                 r2 == Lookup(run_data'[i + 1], "run")
                 e2 == Lookup(run_data'[i + 1], "epoch")
             IN  r1 < r2 \/ (r1 = r2 /\ e1 < e2)]_vars

\* Two epochs of the first run, then the first epoch of the second.
C18_Witness ==
    /\ Len(run_data) = 3
    /\ <<RunOf(1), EpochOf(1)>> = <<1, 1>>
    /\ <<RunOf(2), EpochOf(2)>> = <<1, 2>>
    /\ <<RunOf(3), EpochOf(3)>> = <<2, 1>>
    /\ run_count = 2

\* ----------------------------------------------------- claims: sessions
OpenSessions(ss) == {i \in 1..Len(ss) : ss[i]}

\* C19: along a legal call sequence no session leaks: every begin_run
\* opens exactly one new session, every end_run closes the session of the
\* run it ends, at most one session is open at any time, and none is open
\* while the caller is Idle.
C19_NoSessionLeak ==
    [][/\ op' = "begin_run" =>
             /\ Len(sessions') = Len(sessions) + 1
             /\ OpenSessions(sessions') = OpenSessions(sessions) \cup {Len(sessions')}
       /\ (op' = "end_run" /\ raised' = NoError) =>
             OpenSessions(sessions') = OpenSessions(sessions) \ {Len(sessions)}
       /\ Cardinality(OpenSessions(sessions')) <= 1
       /\ phase' = "Idle" => OpenSessions(sessions') = {}]_vars

====
